---- MODULE Spec2Model ----
(***************************************************************************)
(* Model of the Peptide Research e-commerce API (src/main.py): the HTTP    *)
(* routes, the request schemas, and the document store they delegate to.   *)
(* Every request is one action; the store is the only state that lasts.    *)
(***************************************************************************)
EXTENDS Integers, Sequences, FiniteSets, TLC

VARIABLES database, storeUp, store, store0, inserts, req, resp

vars == <<database, storeUp, store, store0, inserts, req, resp>>

(* ---------------------------- bounds ----------------------------------- *)
\* Length of a well-formed identifier string (24 hex digits in bson, scaled).
OidLen == 1
\* Records the store may hold, over both collections.
MaxDocs == 2
\* Longest collection listing the store may answer the diagnostic probe with.
MaxColls == 11

(* ------------------------ program constants ---------------------------- *)
\* collections[:10]
CollLimit == 10
\* str(e)[:50]
TruncLen == 50

None == "None"

Min(a, b) == IF a < b THEN a ELSE b

(* ------------------------ identifiers (bson) --------------------------- *)
HexLower == {"a", "b"}
HexUpper == {"A"}
Chars == HexLower \cup HexUpper \cup {"g"}

Lower(c) == IF c = "A" THEN "a" ELSE c

\* All strings of length n over Chars.
RECURSIVE StringsOfLen(_)
StringsOfLen(n) ==
    IF n = 0 THEN {<< >>}
    ELSE {Append(s, c) : s \in StringsOfLen(n - 1), c \in Chars}

\* Path parameters: every string of the identifier length, and hex strings
\* that are too short or too long.
IdStrings ==
    StringsOfLen(OidLen) \cup {[i \in 1..n |-> "a"] : n \in 0..(OidLen + 1)}

\* ObjectId(s) raises InvalidId unless s is OidLen hex digits.
ObjectIdValid(s) ==
    /\ Len(s) = OidLen
    /\ \A i \in 1..Len(s) : s[i] \in HexLower \cup HexUpper

\* ObjectId(s): the binary identifier, case of the hex digits forgotten.
ObjectId(s) == [oid |-> [i \in 1..Len(s) |-> Lower(s[i])]]

\* str(oid): lower-case hex.
OidStr(o) == o.oid

Oids == {ObjectId(s) : s \in {t \in IdStrings : ObjectIdValid(t)}}

(* ----------------------------- schemas --------------------------------- *)
\* Request bodies as parsed JSON objects: a field left out is a missing key.
RawProducts ==
    { [name |-> "BPC-157", price |-> 0],
      [name |-> "TB-500", price |-> 3, in_stock |-> FALSE],
      [name |-> "BPC-157", price |-> -1],
      [name |-> "TB-500", price |-> -1, in_stock |-> FALSE],
      [price |-> 3],
      [name |-> "BPC-157"] }

\* PeptideProduct with price declared without its ge=0 bound.
PeptideProductValid_NoRange(raw) ==
    /\ "name" \in DOMAIN raw
    /\ "price" \in DOMAIN raw

\* PeptideProduct: name and price required, price >= 0.
PeptideProductValid(raw) ==
    /\ "name" \in DOMAIN raw
    /\ "price" \in DOMAIN raw
    /\ raw.price >= 0

\* The validated model, defaults filled in (in_stock = True).
PeptideProduct(raw) ==
    [name |-> raw.name, price |-> raw.price,
     in_stock |-> IF "in_stock" \in DOMAIN raw THEN raw.in_stock ELSE TRUE]

RawItemLists ==
    { << >>,
      << [product_id |-> <<"g">>] >>,
      << [product_id |-> <<"a", "b">>, quantity |-> 0] >> }

RawOrders ==
    { [items |-> it, customer_name |-> "A",
       research_use_only_ack |-> r, age_over_21_ack |-> a] :
          it \in RawItemLists, r \in BOOLEAN, a \in BOOLEAN }
    \cup { [items |-> << >>, customer_name |-> "A", research_use_only_ack |-> TRUE],
           [items |-> << >>, research_use_only_ack |-> TRUE, age_over_21_ack |-> TRUE] }

\* OrderItem: product_id required, quantity >= 1 (default 1).
OrderItemValid(raw) ==
    /\ "product_id" \in DOMAIN raw
    /\ ("quantity" \in DOMAIN raw => raw.quantity >= 1)

OrderItem(raw) ==
    [product_id |-> raw.product_id,
     quantity |-> IF "quantity" \in DOMAIN raw THEN raw.quantity ELSE 1]

\* Order: items, customer_name and both acknowledgement fields required.
OrderValid(raw) ==
    /\ {"items", "customer_name", "research_use_only_ack", "age_over_21_ack"}
          \subseteq DOMAIN raw
    /\ \A i \in 1..Len(raw.items) : OrderItemValid(raw.items[i])

Order(raw) ==
    [items |-> [i \in 1..Len(raw.items) |-> OrderItem(raw.items[i])],
     customer_name |-> raw.customer_name,
     research_use_only_ack |-> raw.research_use_only_ack,
     age_over_21_ack |-> raw.age_over_21_ack]

(* --------------------------- the store --------------------------------- *)
\* The process-wide handle: None unless the database module gave one.
db == IF database = "Handle" THEN "Handle" ELSE None

EmptyStore == [peptideproduct |-> << >>, order |-> << >>]

TotalDocs(st) == Len(st.peptideproduct) + Len(st.order)

IdsIn(docs) == {docs[i]._id : i \in 1..Len(docs)}

\* create_document: one record appended under a fresh identifier, whose
\* string form is returned.
create_document(collection_name, data, oid) ==
    [store |-> [store EXCEPT ![collection_name] = Append(@, ("_id" :> oid) @@ data)],
     id |-> OidStr(oid)]

\* get_documents: every record of the collection, in stored order.
get_documents(collection_name) == store[collection_name]

\* A lookup that finds nothing: falsy, like the empty document.
NoDoc == << >>

\* find_one({"_id": oid}): the record, or None.
find_one(collection_name, oid) ==
    LET docs == store[collection_name]
        hit  == {i \in 1..Len(docs) : docs[i]._id = oid}
    IN  IF hit = {} THEN NoDoc ELSE docs[CHOOSE i \in hit : TRUE]

\* to_str_id reading _id without popping it.
to_str_id_KeepsId(doc) ==
    IF DOMAIN doc = {} THEN doc
    ELSE IF "_id" \in DOMAIN doc
         THEN [k \in DOMAIN doc \cup {"id"} |->
                  IF k = "id" THEN OidStr(doc["_id"]) ELSE doc[k]]
         ELSE doc

\* A stored record always carries a non-None _id.
to_str_id(doc) ==
    IF DOMAIN doc = {} THEN doc
    ELSE IF "_id" \in DOMAIN doc
         THEN [k \in (DOMAIN doc \ {"_id"}) \cup {"id"} |->
                  IF k = "id" THEN OidStr(doc["_id"]) ELSE doc[k]]
         ELSE doc

(* --------------------------- responses --------------------------------- *)
\* ins: whether the request reached the store's insert ("none", "done",
\* "raised").
Response(status, body, st, ins) ==
    [status |-> status, body |-> body, store |-> st, ins |-> ins]

HTTPException(status_code, detail) ==
    Response(status_code, [detail |-> detail], store, "none")

\* An exception no handler catches: the framework answers 500.
InternalServerError(ins) ==
    Response(500, [detail |-> "Internal Server Error"], store, ins)

\* Request validation failed before the handler ran.
RequestValidationError ==
    Response(422, [detail |-> "validation error"], store, "none")

(* ----------------------------- routes ---------------------------------- *)
read_root == Response(200, [message |-> "Peptide Research API running"], store, "none")

hello == Response(200, [message |-> "Hello from the backend API!"], store, "none")

disclaimer ==
    Response(200, [title |-> "Research Use Only", content |-> "RUO text"], store, "none")

\* list_products without the guard for a missing store: get_documents raises.
list_products_NoGuard ==
    IF db = None \/ ~storeUp THEN InternalServerError("none")
    ELSE LET docs == get_documents("peptideproduct")
         IN  Response(200, [i \in 1..Len(docs) |-> to_str_id(docs[i])], store, "none")

\* GET /api/products
list_products ==
    IF db = None THEN Response(200, << >>, store, "none")
    ELSE IF ~storeUp THEN InternalServerError("none")
    ELSE LET docs == get_documents("peptideproduct")
         IN  Response(200, [i \in 1..Len(docs) |-> to_str_id(docs[i])], store, "none")

\* get_product without the identifier format check: a malformed identifier
\* simply matches nothing.
get_product_NoFormatCheck(product_id) ==
    IF db = None THEN HTTPException(404, "Product not found")
    ELSE IF ~ObjectIdValid(product_id) THEN HTTPException(404, "Product not found")
    ELSE LET doc == find_one("peptideproduct", ObjectId(product_id))
         IN  IF DOMAIN doc = {} THEN HTTPException(404, "Product not found")
             ELSE Response(200, to_str_id(doc), store, "none")

\* GET /api/products/{product_id}
get_product(product_id) ==
    IF db = None THEN HTTPException(404, "Product not found")
    ELSE IF ~ObjectIdValid(product_id) THEN HTTPException(400, "Invalid product id")
    ELSE IF ~storeUp THEN InternalServerError("none")
    ELSE LET doc == find_one("peptideproduct", ObjectId(product_id))
         IN  IF DOMAIN doc = {} THEN HTTPException(404, "Product not found")
             ELSE Response(200, to_str_id(doc), store, "none")

\* create_product writing to a misspelt collection.
create_product_WrongCollection(product, oid) ==
    IF db = None THEN HTTPException(500, "Database not available")
    ELSE IF ~storeUp THEN InternalServerError("raised")
    ELSE LET r == create_document("order", product, oid)
         IN  Response(201, [id |-> r.id], r.store, "done")

\* create_product calling create_document once for the write and once more
\* for the identifier.
create_product_Twice(product, oid) ==
    IF db = None THEN HTTPException(500, "Database not available")
    ELSE IF ~storeUp THEN InternalServerError("raised")
    ELSE LET r  == create_document("peptideproduct", product, oid)
             st == [r.store EXCEPT !.peptideproduct =
                       Append(@, ("_id" :> oid) @@ product)]
         IN  Response(201, [id |-> r.id], st, "done")

\* POST /api/products, the body already validated as a PeptideProduct.
create_product(product, oid) ==
    IF db = None THEN HTTPException(500, "Database not available")
    ELSE IF ~storeUp THEN InternalServerError("raised")
    ELSE LET r == create_document("peptideproduct", product, oid)
         IN  Response(201, [id |-> r.id], r.store, "done")

\* create_order answering persisted: True on the no-store path as well.
create_order_ClaimsPersisted(order, oid) ==
    IF ~order.research_use_only_ack \/ ~order.age_over_21_ack
    THEN HTTPException(400, "Compliance acknowledgements are required")
    ELSE IF db = None
    THEN Response(201, [status |-> "received", persisted |-> TRUE], store, "none")
    ELSE IF ~storeUp THEN InternalServerError("raised")
    ELSE LET r == create_document("order", order, oid)
         IN  Response(201, [status |-> "received", persisted |-> TRUE, id |-> r.id],
                      r.store, "done")

\* create_order rejecting only when both acknowledgements are missing.
create_order_BothMissing(order, oid) ==
    IF ~order.research_use_only_ack /\ ~order.age_over_21_ack
    THEN HTTPException(400, "Compliance acknowledgements are required")
    ELSE IF db = None
    THEN Response(201, [status |-> "received", persisted |-> FALSE], store, "none")
    ELSE IF ~storeUp THEN InternalServerError("raised")
    ELSE LET r == create_document("order", order, oid)
         IN  Response(201, [status |-> "received", persisted |-> TRUE, id |-> r.id],
                      r.store, "done")

\* create_order writing the order before it looks at the acknowledgements.
create_order_InsertFirst(order, oid) ==
    IF db = None
    THEN IF ~order.research_use_only_ack \/ ~order.age_over_21_ack
         THEN HTTPException(400, "Compliance acknowledgements are required")
         ELSE Response(201, [status |-> "received", persisted |-> FALSE], store, "none")
    ELSE IF ~storeUp THEN InternalServerError("raised")
    ELSE LET r == create_document("order", order, oid)
         IN  IF ~order.research_use_only_ack \/ ~order.age_over_21_ack
             THEN Response(400, [detail |-> "Compliance acknowledgements are required"],
                           r.store, "done")
             ELSE Response(201, [status |-> "received", persisted |-> TRUE, id |-> r.id],
                           r.store, "done")

\* POST /api/orders, the body already validated as an Order.
create_order(order, oid) ==
    IF ~order.research_use_only_ack \/ ~order.age_over_21_ack
    THEN HTTPException(400, "Compliance acknowledgements are required")
    ELSE IF db = None
    THEN Response(201, [status |-> "received", persisted |-> FALSE], store, "none")
    ELSE IF ~storeUp THEN InternalServerError("raised")
    ELSE LET r == create_document("order", order, oid)
         IN  Response(201, [status |-> "received", persisted |-> TRUE, id |-> r.id],
                      r.store, "done")

\* The framework validates the body against the parameter's schema, then
\* calls the handler.
post_products(raw, oid) ==
    IF ~PeptideProductValid(raw) THEN RequestValidationError
    ELSE create_product(PeptideProduct(raw), oid)

post_orders(raw, oid) ==
    IF ~OrderValid(raw) THEN RequestValidationError
    ELSE create_order(Order(raw), oid)

(* ------------------------- diagnostic probe ---------------------------- *)
Text(n) == [i \in 1..n |-> "x"]

\* Exception messages: empty, just under, at and over the truncation length.
Messages == {Text(n) : n \in {0, TruncLen - 1, TruncLen, TruncLen + 1}}

CollectionNames(n) == [i \in 1..n |-> i]

\* What the store answers the probe with: does the handle have a name, does
\* reading it or listing the collections raise (with which message), and the
\* listing itself.
Probes ==
    [DATABASE_URL : BOOLEAN, hasName : BOOLEAN, raises : {"no"}, msg : {Text(0)},
     collections : {CollectionNames(n) : n \in {0, 1, CollLimit, MaxColls}}]
    \cup [DATABASE_URL : BOOLEAN, hasName : {TRUE}, raises : {"import", "name", "list"},
          msg : Messages, collections : {CollectionNames(0)}]

\* A slice that cuts nothing.
Prefix_NoCut(s, n) == s

\* [:n]
Prefix(s, n) == SubSeq(s, 1, Min(Len(s), n))

\* GET /test
test_database(p) ==
    LET response == [backend |-> "Running",
                     database |-> [kind |-> "Not Available", text |-> << >>],
                     database_url |-> None,
                     database_name |-> None,
                     connection_status |-> "Not Connected",
                     collections |-> << >>]
        Error(e) == [kind |-> "Error", text |-> Prefix(e, TruncLen)]
        url == IF p.DATABASE_URL THEN "Set" ELSE "Not Set"
        body ==
          IF database = "ImportError"
          THEN [response EXCEPT !.database = Error(p.msg)]
          ELSE IF db = None
          THEN [response EXCEPT
                  !.database = [kind |-> "Available but not initialized", text |-> << >>]]
          ELSE IF p.raises = "name"
          THEN [response EXCEPT !.database = Error(p.msg), !.database_url = url]
          ELSE LET connected ==
                     [response EXCEPT
                        !.database = [kind |-> "Available", text |-> << >>],
                        !.database_url = url,
                        !.database_name = IF p.hasName THEN "peptides" ELSE "Connected",
                        !.connection_status = "Connected"]
               IN  IF p.raises = "list"
                   THEN [connected EXCEPT
                           !.database = [kind |-> "Connected but Error",
                                         text |-> Prefix(p.msg, TruncLen)]]
                   ELSE [connected EXCEPT
                           !.collections = Prefix(p.collections, CollLimit),
                           !.database = [kind |-> "Connected & Working", text |-> << >>]]
    IN  Response(200, body, store, "none")

(* ------------------------ the state machine ---------------------------- *)
\* A record found in the store at startup.
SeedDoc ==
    [_id |-> ObjectId([i \in 1..OidLen |-> "b"]), name |-> "Seed", price |-> 1,
     in_stock |-> TRUE]

NoRequest == [op |-> "none"]

NoResponse == [op |-> "none", status |-> 0, body |-> << >>, ins |-> "none"]

InitialStores == {EmptyStore, [EmptyStore EXCEPT !.peptideproduct = <<SeedDoc>>]}

Init ==
    /\ database \in {"ImportError", "NoHandle", "Handle"}
    /\ storeUp = TRUE
    /\ store \in IF database = "Handle" THEN InitialStores ELSE {EmptyStore}
    /\ store0 = store
    /\ inserts = 0
    /\ req = NoRequest
    /\ resp = NoResponse

\* One request served: the handler runs to its response and the store takes
\* the write.
Serve(op, arg, r) ==
    /\ req = NoRequest
    /\ req' = [op |-> op, arg |-> arg]
    /\ resp' = [op |-> op, status |-> r.status, body |-> r.body, ins |-> r.ins]
    /\ store' = r.store
    /\ inserts' = IF r.ins = "done" THEN inserts + 1 ELSE inserts
    /\ UNCHANGED <<database, storeUp, store0>>

NilOid == CHOOSE oid \in Oids : TRUE

\* The identifiers the store may assign to request r's record: any one new
\* to the collection (none of them matters to a request that inserts nothing).
Assignable(collection_name, r) ==
    IF r.ins # "done" THEN {NilOid}
    ELSE IF inserts < MaxDocs THEN Oids \ IdsIn(store[collection_name])
    ELSE {}

ReadRoot == Serve("read_root", << >>, read_root)

Hello == Serve("hello", << >>, hello)

Disclaimer == Serve("disclaimer", << >>, disclaimer)

ListProducts == Serve("list_products", << >>, list_products)

GetProduct == \E product_id \in IdStrings :
    Serve("get_product", product_id, get_product(product_id))

CreateProduct == \E raw \in RawProducts :
    \E oid \in Assignable("peptideproduct", post_products(raw, NilOid)) :
        Serve("create_product", raw, post_products(raw, oid))

CreateOrder == \E raw \in RawOrders :
    \E oid \in Assignable("order", post_orders(raw, NilOid)) :
        Serve("create_order", raw, post_orders(raw, oid))

\* The import raises exactly when the module is missing; a probe of the
\* handle raises exactly when the store is not answering.
TestDatabase == \E p \in Probes :
    /\ (p.raises = "import") = (database = "ImportError")
    /\ (p.raises \in {"name", "list"}) = (db # None /\ ~storeUp)
    /\ Serve("test_database", p, test_database(p))

\* The response leaves the process, which keeps nothing of the request.
Reply ==
    /\ req # NoRequest
    /\ req' = NoRequest
    /\ resp' = NoResponse
    /\ UNCHANGED <<database, storeUp, store, store0, inserts>>

\* The store's connection drops or comes back; nothing in the process changes.
StoreFault ==
    /\ db # None
    /\ storeUp' = ~storeUp
    /\ UNCHANGED <<database, store, store0, inserts, req, resp>>

Next ==
    \/ ReadRoot
    \/ Hello
    \/ Disclaimer
    \/ ListProducts
    \/ GetProduct
    \/ CreateProduct
    \/ CreateOrder
    \/ TestDatabase
    \/ Reply

\* The store answers every call.
Spec == Init /\ [][Next]_vars

\* The store's calls may also raise.
SpecFault == Init /\ [][Next \/ StoreFault]_vars

(* ------------------------------ claims --------------------------------- *)
Acked(raw) == raw.research_use_only_ack /\ raw.age_over_21_ack

MatchesRecord(product_id) ==
    /\ ObjectIdValid(product_id)
    /\ ObjectId(product_id) \in IdsIn(store.peptideproduct)

\* The stored record with identifier string s (lower-case hex).
RecordOf(s) ==
    LET docs == store.peptideproduct
    IN  docs[CHOOSE i \in 1..Len(docs) : docs[i]._id.oid = s]

\* body is the record doc with its _id surfaced as the string field id and
\* every other field as stored.
Surfaced(body, doc) ==
    /\ DOMAIN body = (DOMAIN doc \ {"_id"}) \cup {"id"}
    /\ body.id = doc._id.oid
    /\ \A k \in DOMAIN doc \ {"_id"} : body[k] = doc[k]

\* C1: a schema-valid order with either acknowledgement false is answered
\* 400, whatever its items and whether or not a store is configured, and
\* nothing is inserted: the store is the same after the request as before.
C1_UnackedOrderRejected ==
    [][(/\ req'.op = "create_order"
        /\ OrderValid(req'.arg)
        /\ ~Acked(req'.arg))
       => (/\ resp'.status = 400
           /\ resp'.ins = "none"
           /\ store' = store)]_vars

C1_Witness ==
    /\ req.op = "create_order"
    /\ OrderValid(req.arg)
    /\ req.arg.research_use_only_ack
    /\ ~req.arg.age_over_21_ack
    /\ Len(req.arg.items) > 0
    /\ db # None
    /\ resp.status = 400

\* C2 as stated: a create request either succeeds with the new identifier in
\* the response or ends without an insert having been attempted.
C2_NoPartialFailure ==
    req.op \in {"create_product", "create_order"} =>
        \/ /\ resp.ins = "done"
           /\ resp.status = 201
           /\ "id" \in DOMAIN resp.body
        \/ resp.ins = "none"

\* C2 amended: a create request either succeeds (one insert, 201, the new
\* identifier in the response), or ends without an insert having been
\* attempted and with the store untouched, or its insert raised in the store
\* and the request ends in a 500.
C2_WriteOutcomes ==
    [][(/\ req = NoRequest
        /\ req'.op \in {"create_product", "create_order"})
       => (\/ /\ resp'.ins = "done"
              /\ resp'.status = 201
              /\ "id" \in DOMAIN resp'.body
              /\ TotalDocs(store') = TotalDocs(store) + 1
           \/ /\ resp'.ins = "none"
              /\ store' = store
           \/ /\ resp'.ins = "raised"
              /\ resp'.status = 500
              /\ db # None
              /\ ~storeUp)]_vars

C2_Witness ==
    /\ req.op = "create_order"
    /\ resp.ins = "raised"
    /\ resp.status = 500

C6_InvalidProductIs422 ==
    [][(/\ req'.op = "create_product"
        /\ \/ "name" \notin DOMAIN req'.arg
           \/ "price" \notin DOMAIN req'.arg
           \/ req'.arg.price < 0)
       => (/\ resp'.status = 422
           /\ resp'.ins = "none"
           /\ store' = store)]_vars

C6_Witness ==
    /\ req.op = "create_product"
    /\ "price" \in DOMAIN req.arg
    /\ req.arg.price < 0
    /\ db = None
    /\ resp.status = 422

C8_DiagnosticNeverFails ==
    req.op = "test_database" =>
        /\ resp.status = 200
        /\ DOMAIN resp.body = {"backend", "database", "database_url", "database_name",
                               "connection_status", "collections"}
        /\ Len(resp.body.collections) <= CollLimit
        /\ \A i \in 1..Len(resp.body.collections) :
              resp.body.collections[i] = req.arg.collections[i]
        /\ Len(resp.body.database.text) <= TruncLen
        /\ req.arg.raises # "no" =>
              /\ resp.body.database.kind \in {"Error", "Connected but Error"}
              /\ Len(resp.body.database.text) = Min(Len(req.arg.msg), TruncLen)
        /\ db = None =>
              /\ resp.body.database.kind \in {"Error", "Available but not initialized"}
              /\ resp.body.collections = << >>
              /\ resp.body.connection_status = "Not Connected"

C8_Witness ==
    /\ req.op = "test_database"
    /\ req.arg.raises = "list"
    /\ Len(req.arg.msg) > TruncLen
    /\ Len(resp.body.database.text) = TruncLen

ReadOps ==
    {"read_root", "hello", "disclaimer", "list_products", "get_product", "test_database"}

====
